---- MODULE Spec2Model ----
(***************************************************************************)
(* Order placement, cancellation, order-status updates and stock           *)
(* adjustment of the virello backend (Express handlers over Mongoose       *)
(* models).  Every handler is cut at its awaits: one action is the code    *)
(* that runs, without interruption, when one datastore call resolves.      *)
(* Several requests may be in flight at once, one per slot.  A request     *)
(* body is read where the handler reads it: the item list of an order is   *)
(* drawn item by item as the validation loop reaches each item, which      *)
(* yields the same runs as drawing the whole list on arrival, since the    *)
(* handler is the list's only reader.                                      *)
(***************************************************************************)
EXTENDS Integers, Sequences, FiniteSets, TLC

\* ------------------------------------------------------------------ bounds
NSlots == 2
MaxOrders == 2
MaxItems == 2
MaxQty == 2
MaxStock == 2
MaxOps == 3
MaxPlaceOps == 2
MaxPlaced == 1
MaxStockOps == 2
MaxDraw == 1

\* Math.floor(Math.random() * 10000)
RandomRange == 10000

Slots == 1..NSlots

\* ------------------------------------------------------------ the universe
Products == {"p1", "p2"}

\* A reference a client may send as an item's productId or id: a catalog id, a
\* well-formed ObjectId no product has ("ghost"), a string that is no ObjectId
\* ("bad"), or nothing ("none").
RefIds == Products \cup {"ghost", "bad", "none"}

Users == {"u1", "u2", "adm"}

UserInfo ==
  [u \in Users |->
     IF u = "adm" THEN [isAdmin |-> TRUE, role |-> "admin"]
                  ELSE [isAdmin |-> FALSE, role |-> "user"]]

ProductStatuses == {"active", "inactive", "out_of_stock", "discontinued"}

OrderStatuses ==
  {"pending", "confirmed", "processing", "shipped", "delivered", "cancelled", "returned"}

PaymentStatuses == {"pending", "processing", "completed", "failed", "refunded"}

\* ------------------------------------------------------ JavaScript values
\* A request value that is a number, a numeric string (JSON "1", or any value of
\* a urlencoded body), or absent.
Absent == [kind |-> "absent", v |-> 0]
Num(n) == [kind |-> "num", v |-> n]
Str(n) == [kind |-> "str", v |-> n]

RECURSIVE Digits(_)
Digits(n) == IF n < 10 THEN 1 ELSE 1 + Digits(n \div 10)

RECURSIVE Pow10(_)
Pow10(k) == IF k = 0 THEN 1 ELSE 10 * Pow10(k - 1)

\* x || 0 : absent and the number 0 are falsy, every numeric string is truthy.
JsOrZero(x) == IF x.kind = "absent" THEN Num(0) ELSE x

\* n + x for a number n: addition when x is a number, concatenation of the
\* decimal text of n with x when x is a string.
JsAdd(n, x) ==
  IF x.kind = "str" THEN Str(n * Pow10(Digits(x.v)) + x.v) ELSE Num(n + x.v)

\* Mongoose's cast of a value stored in a Number path.
CastNumber(x) == x.v

\* a || b on references
JsOr(a, b) == IF a /= "none" THEN a ELSE b

ObjectIdIsValid(x) == x \in Products \cup {"ghost"}

\* The decimal text of a natural number, as the sequence of its digits.
RECURSIVE DecimalText(_)
DecimalText(n) == IF n < 10 THEN <<n>> ELSE Append(DecimalText(n \div 10), n % 10)

\* s.padStart(k, '0')
RECURSIVE PadStart(_, _)
PadStart(s, k) == IF Len(s) >= k THEN s ELSE PadStart(<<0>> \o s, k)

\* s.slice(from, to), counting characters from 0
Slice(s, from, to) == SubSeq(s, from + 1, to)

\* s.slice(-k)
SliceLast(s, k) == IF Len(s) <= k THEN s ELSE SubSeq(s, Len(s) - k + 1, Len(s))

\* new Date(): the days a run may fall on, as getFullYear(), getMonth() and
\* getDate() give them.
Dates ==
  {[year |-> 2026, month |-> 10, day |-> 3], [year |-> 2027, month |-> 0, day |-> 12]}

Today == [year |-> 2026, month |-> 10, day |-> 3]

\* The values Math.floor(Math.random() * 10000) may take.
Randoms == (0..MaxDraw) \cup {RandomRange - 1}

NoNumber == [prefix |-> "none", digits |-> <<>>]

\* orderSchema.statics.generateOrderNumber
generateOrderNumber(date, random) ==
  LET year == SliceLast(DecimalText(date.year), 2)
      month == PadStart(DecimalText(date.month + 1), 2)
      day == PadStart(DecimalText(date.day), 2)
      suffix == PadStart(DecimalText(random), 4)
  IN [prefix |-> "VF", digits |-> year \o month \o day \o suffix]

\* The order number of a mock order: 'VF', the characters 2 to 9 of the ISO
\* date without their dashes, and the padded random suffix.
mockOrderNumber(date, random) ==
  LET iso == PadStart(DecimalText(date.year), 4) \o PadStart(DecimalText(date.month + 1), 2)
               \o PadStart(DecimalText(date.day), 2)
  IN [prefix |-> "VF", digits |-> Slice(iso, 2, 8) \o PadStart(DecimalText(random), 4)]

\* ------------------------------------------------------------------ state
VARIABLES
  products,     \* the Product collection: id -> document
  orders,       \* the Order collection, in insertion order
  req,          \* the request in each slot: input, position, locals, response
  dbConnected,  \* mongoose.connection.readyState === 1
  nOps,         \* requests accepted so far
  users,        \* the User collection: email -> document
  otp,          \* the dispatch of the verification code of each registration
  settings      \* the Settings collection, in insertion order

vars == <<products, orders, req, dbConnected, nOps, users, otp, settings>>

\* The addresses accounts are registered with.
Emails == {"a@x", "b@x"}

NoUsers == [e \in {} |-> 0]

InitProducts ==
  [p \in Products |->
     [name |-> "n1", stock |-> MaxStock, status |-> "active",
      price |-> IF p = "p1" THEN 1 ELSE 2,
      minOrder |-> IF p = "p1" THEN 1 ELSE 2,
      orders |-> 0]]

NoSnap == [products |-> InitProducts, orders |-> <<>>]

\* The modified paths of a loaded document: document.save() writes these
\* paths and no other.
NoMods == [f \in {} |-> 0]

\* Entries pushed on adminNotes are written as a push onto the stored array.
Save(doc, mods) ==
  [f \in DOMAIN doc |->
     IF f = "notes" /\ "push" \in DOMAIN mods THEN doc[f] \o mods["push"]
     ELSE IF f \in DOMAIN mods THEN mods[f]
     ELSE doc[f]]

\* The paths among fs at which the document `to` differs from `from`.
Modified(from, to, fs) == [f \in {g \in fs : to[g] /= from[g]} |-> to[f]]

\* The modified paths of an order and the entries pushed on its adminNotes.
Changes(from, to, fs) ==
  IF Len(to.notes) > Len(from.notes)
    THEN Modified(from, to, fs)
           @@ [f \in {"push"} |-> SubSeq(to.notes, Len(from.notes) + 1, Len(to.notes))]
    ELSE Modified(from, to, fs)

\* The order data of a response: the order it describes (orderNumber,
\* totalAmount as the JSON carries it, orderStatus) or the order documents it
\* returns.
NoOut == [orderNumber |-> NoNumber, totalAmount |-> Absent, orderStatus |-> "none",
          docs |-> {}]

IdleReq ==
  [op |-> "none", pc |-> "idle", caller |-> "none", oid |-> 0, pid |-> "none",
   email |-> "none", note |-> "none", method |-> "none", code |-> <<>>,
   ship |-> Absent, arg |-> "none", qty |-> 0,
   idx |-> 0, vitems |-> <<>>, subtotal |-> 0,
   mods |-> NoMods, num |-> NoNumber,
   res |-> 0, err |-> "none", mock |-> FALSE, out |-> NoOut,
   keep |-> FALSE, pre |-> NoSnap]

Init ==
  /\ products = InitProducts
  /\ orders = <<>>
  /\ req = [r \in Slots |-> IdleReq]
  /\ dbConnected = TRUE
  /\ nOps = 0
  /\ users = NoUsers
  /\ otp = [e \in Emails |-> "none"]
  /\ settings = <<>>

\* --------------------------------------------------------- request framing
Free(r) == req[r].pc \in {"idle", "done"}

Active(r) == ~Free(r)

\* A request takes the lowest free slot.
CanStart(r, c) ==
  /\ Free(r)
  /\ \A s \in Slots : s < r => Active(s)
  /\ nOps < c.ops

\* The request `new` enters slot r; with keep, it keeps the collections as they
\* are on its entry, for comparison with what it leaves behind.
Begin(r, new, keep) ==
  /\ req' = [req EXCEPT ![r] =
       [new EXCEPT !.keep = keep,
                   !.pre = IF keep THEN [products |-> products, orders |-> orders]
                                   ELSE NoSnap]]
  /\ nOps' = nOps + 1

\* res.status(code).json({error: err}) ends the request.  What was sent and
\* what it answered stay in the slot; its locals stay too when it keeps the
\* collections of its entry.
Respond(q, code, err) ==
  IF q.keep
    THEN [q EXCEPT !.pc = "done", !.res = code, !.err = err, !.idx = 0]
    ELSE [IdleReq EXCEPT !.pc = "done", !.res = code, !.err = err, !.op = q.op,
                         !.caller = q.caller, !.oid = q.oid, !.pid = q.pid]

\* res.status(code).json({... order data ...})
RespondWith(q, code, out) ==
  IF q.keep THEN [Respond(q, code, "none") EXCEPT !.out = out]
            ELSE Respond(q, code, "none")

Step(r, q) == req' = [req EXCEPT ![r] = q]

\* A gate that lets every caller through.
EveryoneIsAdministrator(u) == TRUE

\* adminAuth
IsAdministrator(u) == UserInfo[u].isAdmin \/ UserInfo[u].role = "admin"

\* ------------------------------------------------------- POST /api/orders
\* Items a client may send.  A catalog reference carries no price of its own
\* (the handler ignores it); an ad-hoc item carries its price, 0 when absent.
CatalogItems ==
  {[productId |-> p, id |-> "none", quantity |-> n, price |-> 0] :
     p \in Products \cup {"ghost"}, n \in 1..MaxQty}
  \cup {[productId |-> "none", id |-> "p1", quantity |-> n, price |-> 0] : n \in 1..MaxQty}

AdHocItems ==
  {[productId |-> "none", id |-> "none", quantity |-> n, price |-> c] :
     n \in 1..MaxQty, c \in 0..1}
  \cup {[productId |-> "none", id |-> "bad", quantity |-> n, price |-> 1] : n \in 1..MaxQty}
  \cup {[productId |-> "bad", id |-> "p1", quantity |-> n, price |-> 1] : n \in 1..MaxQty}

ItemInputs == CatalogItems \cup AdHocItems

ShipInputs == {Absent, Num(0), Num(1), Str(0), Str(1)}

\* const productId = item.productId || item.id
ItemRef(item) == JsOr(item.productId, item.id)

\* if (productId && mongoose.Types.ObjectId.isValid(productId))
IsCatalogRef(item) == ItemRef(item) /= "none" /\ ObjectIdIsValid(ItemRef(item))

\* The checks on the product read for a catalog reference: the error of the
\* first check that fails, or "ok".
CatalogCheck(ps, pid, quantity) ==
  IF pid \notin DOMAIN ps THEN "Invalid product"
  ELSE IF ps[pid].status /= "active" THEN "Product unavailable"
  ELSE IF ps[pid].stock < quantity THEN "Insufficient stock"
  ELSE IF quantity < ps[pid].minOrder THEN "Minimum order not met"
  ELSE "ok"

\* The snapshot pushed on validatedItems; cat tells which branch pushed it.
\* seen is the stock of the product document the checks read.
Snapshot(ps, item) ==
  IF IsCatalogRef(item)
    THEN [productId |-> ItemRef(item), name |-> ps[ItemRef(item)].name,
          price |-> ps[ItemRef(item)].price,
          quantity |-> item.quantity, cat |-> TRUE, seen |-> ps[ItemRef(item)].stock]
    ELSE [productId |-> JsOr(item.id, "frontend"), name |-> "Unknown Product",
          price |-> item.price,
          quantity |-> item.quantity, cat |-> FALSE, seen |-> 0]

\* The auth middleware of the request: its lookup of the user fails while the
\* datastore is not connected.
StartCreate(r, c) ==
  \E caller \in c.customers :
    /\ CanStart(r, c)
    /\ Len(orders) + Cardinality({s \in Slots : Active(s) /\ req[s].op = "create"}) < c.orders
    /\ LET q == [IdleReq EXCEPT !.op = "create", !.caller = caller]
       IN IF ~dbConnected
            THEN Begin(r, Respond(q, 500, "Authentication failed"), c.keep)
            ELSE Begin(r, [q EXCEPT !.pc = "entry"], c.keep)
    /\ UNCHANGED <<products, orders, dbConnected, users, otp, settings>>

\* The item lists of at most n items over S.
ItemLists(S, n) == UNION {[1..k -> S] : k \in 1..n}

\* (orderData.items || []).reduce((sum, it) => sum + (it.price || 0) * (it.quantity || 0), 0)
RECURSIVE subtotalMock(_)
subtotalMock(items) ==
  IF items = <<>> THEN 0
  ELSE subtotalMock(SubSeq(items, 1, Len(items) - 1))
         + items[Len(items)].price * items[Len(items)].quantity

\* The mock order of the response sent while the datastore is not connected.
MockOrder(items, ship, date, random) ==
  [orderNumber |-> mockOrderNumber(date, random),
   totalAmount |-> JsAdd(subtotalMock(items) + 0, JsOrZero(ship)),
   orderStatus |-> "pending",
   docs |-> {}]

\* The handler starts, after the validators that follow auth: with the
\* datastore not connected it answers with a mock order computed from the
\* request alone.
CreateEntry(r, c) ==
  /\ req[r].op = "create" /\ req[r].pc = "entry"
  /\ LET q == req[r]
     IN IF dbConnected
          THEN Step(r, [q EXCEPT !.pc = "validate", !.idx = 1])
          ELSE \E items \in ItemLists(c.items, c.len), ship \in c.ships,
                  date \in c.dates, random \in c.draws :
                 Step(r, [Respond(q, 201, "none") EXCEPT
                            !.mock = TRUE, !.ship = ship,
                            !.subtotal = subtotalMock(items),
                            !.out = MockOrder(items, ship, date, random)])
  /\ UNCHANGED <<products, orders, dbConnected, nOps, users, otp, settings>>

\* Product.findByIdAndUpdate(id, {$inc: {stock: -quantity, 'analytics.orders': 1}})
DecrementStock(ps, pid, quantity) ==
  IF pid \in DOMAIN ps
    THEN [ps EXCEPT ![pid].stock = @ - quantity, ![pid].orders = @ + 1]
    ELSE ps

\* A validation loop that takes the stock of an item as soon as the item has
\* passed its checks, before the items after it are checked.
CreateValidateEager(r, c) ==
  \E item \in c.items, last \in BOOLEAN :
    /\ req[r].op = "create" /\ req[r].pc = "validate"
    /\ last \/ req[r].idx < c.len
    /\ LET q == req[r]
           check == IF IsCatalogRef(item)
                      THEN CatalogCheck(products, ItemRef(item), item.quantity)
                      ELSE "ok"
           snap == Snapshot(products, item)
           pushed == [q EXCEPT !.subtotal = @ + snap.price * snap.quantity,
                               !.vitems = Append(@, snap)]
       IN /\ IF IsCatalogRef(item) /\ ~dbConnected THEN Step(r, Respond(q, 500, "Server Error"))
             ELSE IF check /= "ok" THEN Step(r, Respond(q, 400, check))
             ELSE IF ~last THEN Step(r, [pushed EXCEPT !.idx = @ + 1])
             ELSE Step(r, [pushed EXCEPT !.pc = "save"])
          /\ products' = IF IsCatalogRef(item) /\ dbConnected /\ check = "ok"
                           THEN DecrementStock(products, ItemRef(item), item.quantity)
                           ELSE products
    /\ UNCHANGED <<orders, dbConnected, nOps, users, otp, settings>>

\* One turn of the validation loop: the item at idx is read and checked; last
\* tells whether it is the last item of the list.
CreateValidate(r, c) ==
  \E item \in c.items, last \in BOOLEAN :
    /\ req[r].op = "create" /\ req[r].pc = "validate"
    /\ last \/ req[r].idx < c.len
    /\ LET q == req[r]
           check == IF IsCatalogRef(item)
                      THEN CatalogCheck(products, ItemRef(item), item.quantity)
                      ELSE "ok"
           snap == Snapshot(products, item)
           pushed == [q EXCEPT !.subtotal = @ + snap.price * snap.quantity,
                               !.vitems = Append(@, snap)]
       IN IF IsCatalogRef(item) /\ ~dbConnected THEN Step(r, Respond(q, 500, "Server Error"))
          ELSE IF check /= "ok" THEN Step(r, Respond(q, 400, check))
          ELSE IF ~last THEN Step(r, [pushed EXCEPT !.idx = @ + 1])
          ELSE Step(r, [pushed EXCEPT !.pc = "save"])
    /\ UNCHANGED <<products, orders, dbConnected, nOps, users, otp, settings>>

\* An item as the order document stores it.
Stored(v) ==
  [productId |-> v.productId, name |-> v.name, price |-> v.price, quantity |-> v.quantity]

\* The payment methods the validator of payment.method accepts, which are
\* the enum of the schema's payment.method.
PaymentMethods ==
  {"stripe", "paypal", "bank_transfer", "cash_on_delivery", "cod", "card",
   "jazz_cash", "easypesa"}

\* paymentMethodMap[method]; "none" where the map has no such key.
paymentMethodMap(method) ==
  CASE method = "cod" -> "cash_on_delivery"
    [] method = "card" -> "stripe"
    [] method = "jazz_cash" -> "jazz_cash"
    [] method = "easypesa" -> "easypesa"
    [] OTHER -> "none"

\* A handler that stores the method as the request names it.
requestPaymentMethod(method) == method

\* const backendPaymentMethod = paymentMethodMap[method] || method
backendPaymentMethod(method) == JsOr(paymentMethodMap(method), method)

\* new Order({...}) as order.save() stores it.
\* pay is the payment.status the request carries, "none" when it carries none.
NewOrder(q, ship, number, pay, method) ==
  LET tax == 0
      shippingCost == JsOrZero(ship)
      totalAmount == JsAdd(q.subtotal + tax, shippingCost)
  IN [orderNumber |-> number,
      customerId |-> q.caller,
      items |-> [i \in 1..Len(q.vitems) |-> Stored(q.vitems[i])],
      subtotal |-> q.subtotal,
      tax |-> tax,
      shipCost |-> CastNumber(shippingCost),
      totalAmount |-> CastNumber(totalAmount),
      payAmount |-> CastNumber(totalAmount),
      orderStatus |-> "pending",
      paymentStatus |-> "pending",
      payStatus |-> IF pay = "none" THEN "pending" ELSE pay,
      method |-> backendPaymentMethod(method),
      shipStatus |-> "pending",
      delivered |-> FALSE,
      notes |-> <<>>]

\* The values a request may carry as payment.status: none, one of the
\* schema's enum, or a string that is none of them (no validator of the route
\* reads the field).
PayInputs == {"none", "completed", "bogus"}

\* The schema validators order.save() runs on a new order: payment.status
\* is one of its enum.
OrderValid(doc) == doc.payStatus \in PaymentStatuses /\ doc.method \in PaymentMethods

\* The unique index on orderNumber admits the insert.
OrderNumberFree(os, number) == \A i \in 1..Len(os) : os[i].orderNumber /= number

\* The order data of the 201 response.
OrderSummary(order) ==
  [orderNumber |-> order.orderNumber, totalAmount |-> Num(order.totalAmount),
   orderStatus |-> order.orderStatus, docs |-> {}]

\* An insert into a collection that has no unique index on orderNumber.
CreateSaveUnindexed(r, c) ==
  \E ship \in c.ships, date \in c.dates, random \in c.draws, pay \in c.pays,
     method \in c.methods :
    /\ req[r].op = "create" /\ req[r].pc = "save"
    /\ LET number == generateOrderNumber(date, random)
           q == [req[r] EXCEPT !.ship = ship, !.num = number, !.arg = pay,
                               !.method = method]
           doc == NewOrder(q, ship, number, pay, method)
       IN IF ~dbConnected \/ ~OrderValid(doc)
            THEN /\ Step(r, Respond(q, 500, "Server Error"))
                 /\ UNCHANGED orders
            ELSE /\ orders' = Append(orders, doc)
                 /\ Step(r, [q EXCEPT !.pc = "decrement", !.idx = 1, !.oid = Len(orders) + 1])
    /\ UNCHANGED <<products, dbConnected, nOps, users, otp, settings>>

\* A handler that takes the stock of the first item before it inserts the
\* order.
CreateSaveStockFirst(r, c) ==
  \E ship \in c.ships, date \in c.dates, random \in c.draws, pay \in c.pays,
     method \in c.methods :
    /\ req[r].op = "create" /\ req[r].pc = "save"
    /\ LET number == generateOrderNumber(date, random)
           q == [req[r] EXCEPT !.ship = ship, !.num = number, !.arg = pay,
                               !.method = method]
           doc == NewOrder(q, ship, number, pay, method)
       IN /\ products' = IF dbConnected /\ ObjectIdIsValid(q.vitems[1].productId)
                            THEN DecrementStock(products, q.vitems[1].productId,
                                                q.vitems[1].quantity)
                            ELSE products
          /\ IF ~dbConnected \/ ~OrderValid(doc) \/ ~OrderNumberFree(orders, number)
               THEN /\ Step(r, Respond(q, 500, "Server Error"))
                    /\ UNCHANGED orders
               ELSE /\ orders' = Append(orders, doc)
                    /\ Step(r, [q EXCEPT !.pc = "decrement", !.idx = 1,
                                         !.oid = Len(orders) + 1])
    /\ UNCHANGED <<dbConnected, nOps, users, otp, settings>>

\* Order.generateOrderNumber(), new Order({...}) and order.save()
CreateSave(r, c) ==
  \E ship \in c.ships, date \in c.dates, random \in c.draws, pay \in c.pays,
     method \in c.methods :
    /\ req[r].op = "create" /\ req[r].pc = "save"
    /\ LET number == generateOrderNumber(date, random)
           q == [req[r] EXCEPT !.ship = ship, !.num = number, !.arg = pay,
                               !.method = method]
           doc == NewOrder(q, ship, number, pay, method)
       IN IF ~dbConnected \/ ~OrderValid(doc) \/ ~OrderNumberFree(orders, number)
            THEN /\ Step(r, Respond(q, 500, "Server Error"))
                 /\ UNCHANGED orders
            ELSE /\ orders' = Append(orders, doc)
                 /\ Step(r, [q EXCEPT !.pc = "decrement", !.idx = 1, !.oid = Len(orders) + 1])
    /\ UNCHANGED <<products, dbConnected, nOps, users, otp, settings>>

\* One turn of the stock loop; the response follows the last turn.
CreateDecrement(r) ==
  /\ req[r].op = "create" /\ req[r].pc = "decrement"
  /\ LET q == req[r]
         item == q.vitems[q.idx]
         next == IF q.idx < Len(q.vitems)
                   THEN [q EXCEPT !.idx = @ + 1]
                   ELSE RespondWith(q, 201, OrderSummary(orders[q.oid]))
     IN IF ~ObjectIdIsValid(item.productId)
          THEN Step(r, next) /\ UNCHANGED products
        ELSE IF ~dbConnected
          THEN Step(r, Respond(q, 500, "Server Error")) /\ UNCHANGED products
        ELSE /\ products' = DecrementStock(products, item.productId, item.quantity)
             /\ Step(r, next)
  /\ UNCHANGED <<orders, dbConnected, nOps, users, otp, settings>>

\* ------------------------------------------- PATCH /api/orders/:id/cancel
OrderIds == 1..MaxOrders

StartCancel(r, c) ==
  \E caller \in c.callers, oid \in OrderIds :
    /\ CanStart(r, c)
    /\ Begin(r, [IdleReq EXCEPT !.op = "cancel", !.pc = "find",
                                !.caller = caller, !.oid = oid], c.keep)
    /\ UNCHANGED <<products, orders, dbConnected, users, otp, settings>>

\* A status check that lets an order of any status be cancelled.
CancellableAnywhere == OrderStatuses

\* The statuses an order can be cancelled from.
Cancellable == {"pending", "confirmed"}

\* Order.findById resolves: the ownership and status checks, then the
\* assignment of orderStatus and the call of save().
CancelFind(r) ==
  /\ req[r].op = "cancel" /\ req[r].pc = "find"
  /\ LET q == req[r]
     IN IF ~dbConnected THEN Step(r, Respond(q, 500, "Server Error"))
        ELSE IF q.oid > Len(orders) THEN Step(r, Respond(q, 404, "Order not found"))
        ELSE IF orders[q.oid].customerId /= q.caller
          THEN Step(r, Respond(q, 403, "Access denied"))
        ELSE IF orders[q.oid].orderStatus \notin Cancellable
          THEN Step(r, Respond(q, 400, "Cannot cancel order"))
        ELSE Step(r, [q EXCEPT !.pc = "save",
                               !.mods = [orderStatus |-> "cancelled"]])
  /\ UNCHANGED <<products, orders, dbConnected, nOps, users, otp, settings>>

CancelSave(r) ==
  /\ req[r].op = "cancel" /\ req[r].pc = "save"
  /\ LET q == req[r]
     IN IF ~dbConnected
          THEN /\ Step(r, Respond(q, 500, "Server Error"))
               /\ UNCHANGED orders
          ELSE /\ orders' = [orders EXCEPT ![q.oid] = Save(@, q.mods)]
               /\ Step(r, [q EXCEPT !.pc = "restore", !.idx = 1])
  /\ UNCHANGED <<products, dbConnected, nOps, users, otp, settings>>

\* Product.findByIdAndUpdate(id, {$inc: {stock: quantity},
\*                                 $inc: {'analytics.orders': -1}}):
\* the object literal names $inc twice and keeps the second value.
RestoreStock(ps, pid, quantity) ==
  IF pid \in DOMAIN ps THEN [ps EXCEPT ![pid].orders = @ - 1] ELSE ps

\* One turn of the restore loop.  An id that is no ObjectId makes the query
\* throw a CastError, which the catch answers with 400.
CancelRestore(r) ==
  /\ req[r].op = "cancel" /\ req[r].pc = "restore"
  /\ LET q == req[r]
         item == orders[q.oid].items[q.idx]
         next == IF q.idx < Len(orders[q.oid].items) THEN [q EXCEPT !.idx = @ + 1]
                                                     ELSE Respond(q, 200, "none")
     IN IF ~ObjectIdIsValid(item.productId)
          THEN Step(r, Respond(q, 400, "Invalid ID")) /\ UNCHANGED products
        ELSE IF ~dbConnected
          THEN Step(r, Respond(q, 500, "Server Error")) /\ UNCHANGED products
        ELSE /\ products' = RestoreStock(products, item.productId, item.quantity)
             /\ Step(r, next)
  /\ UNCHANGED <<orders, dbConnected, nOps, users, otp, settings>>

\* ------------ GET /api/orders/:id, /api/orders/number/:orderNumber, /api/orders
\* A gate under which every caller may view every order.
AnyoneMayView(order, caller) == TRUE

\* orderCustomerId !== req.user.userId && !req.userInfo.isAdmin answers 403
MayView(order, caller) == order.customerId = caller \/ UserInfo[caller].isAdmin

\* A fetch that fills the items of the order from the products as they are now.
FetchedLive(order) ==
  [NoOut EXCEPT !.docs =
     {[order EXCEPT !.items =
         [i \in 1..Len(order.items) |->
            IF order.items[i].productId \in DOMAIN products
              THEN [order.items[i] EXCEPT
                      !.name = products[order.items[i].productId].name,
                      !.price = products[order.items[i].productId].price]
              ELSE order.items[i]]]}]

\* res.json({ order })
Fetched(order) == [NoOut EXCEPT !.docs = {order}]

StartGet(r, c) ==
  \E caller \in c.callers, oid \in OrderIds :
    /\ CanStart(r, c)
    /\ Begin(r, [IdleReq EXCEPT !.op = "get", !.pc = "find",
                                !.caller = caller, !.oid = oid], c.keep)
    /\ UNCHANGED <<products, orders, dbConnected, users, otp, settings>>

\* Order.findById resolves.
GetFind(r) ==
  /\ req[r].op = "get" /\ req[r].pc = "find"
  /\ LET q == req[r]
     IN IF ~dbConnected THEN Step(r, Respond(q, 500, "Server Error"))
        ELSE IF q.oid > Len(orders) THEN Step(r, Respond(q, 404, "Order not found"))
        ELSE IF ~MayView(orders[q.oid], q.caller)
          THEN Step(r, Respond(q, 403, "Access denied"))
        ELSE Step(r, RespondWith(q, 200, Fetched(orders[q.oid])))
  /\ UNCHANGED <<products, orders, dbConnected, nOps, users, otp, settings>>

StartGetByNumber(r, c) ==
  \E caller \in c.callers, number \in c.numbers :
    /\ CanStart(r, c)
    /\ Begin(r, [IdleReq EXCEPT !.op = "getByNumber", !.pc = "find",
                                !.caller = caller, !.num = number], c.keep)
    /\ UNCHANGED <<products, orders, dbConnected, users, otp, settings>>

\* Order.findOne({orderNumber}) resolves.
GetByNumberFind(r) ==
  /\ req[r].op = "getByNumber" /\ req[r].pc = "find"
  /\ LET q == req[r]
         found == {i \in 1..Len(orders) : orders[i].orderNumber = q.num}
     IN IF ~dbConnected THEN Step(r, Respond(q, 500, "Server Error"))
        ELSE IF found = {} THEN Step(r, Respond(q, 404, "Order not found"))
        ELSE \E i \in found :
               /\ \A j \in found : i <= j
               /\ IF ~MayView(orders[i], q.caller)
                    THEN Step(r, Respond([q EXCEPT !.oid = i], 403, "Access denied"))
                    ELSE Step(r, RespondWith([q EXCEPT !.oid = i], 200, Fetched(orders[i])))
  /\ UNCHANGED <<products, orders, dbConnected, nOps, users, otp, settings>>

\* GET /api/orders with the status filter, "none" when the query has none.
StartList(r, c) ==
  \E caller \in c.callers, status \in c.statuses \cup {"none"} :
    /\ CanStart(r, c)
    /\ Begin(r, [IdleReq EXCEPT !.op = "list", !.pc = "find",
                                !.caller = caller, !.arg = status], c.keep)
    /\ UNCHANGED <<products, orders, dbConnected, users, otp, settings>>

\* filter = {customerId: userId}, with orderStatus when the query names one
Listed(os, caller, status) ==
  {os[i] : i \in {j \in 1..Len(os) :
     os[j].customerId = caller /\ (status = "none" \/ os[j].orderStatus = status)}}

\* Order.find(filter) and Order.countDocuments(filter) resolve.
ListFind(r) ==
  /\ req[r].op = "list" /\ req[r].pc = "find"
  /\ LET q == req[r]
     IN IF ~dbConnected THEN Step(r, Respond(q, 500, "Server Error"))
        ELSE Step(r, RespondWith(q, 200,
                    [NoOut EXCEPT !.docs = Listed(orders, q.caller, q.arg)]))
  /\ UNCHANGED <<products, orders, dbConnected, nOps, users, otp, settings>>

\* ------------------- PATCH /api/orders/:id/status, /api/admin/orders/:id/status
StartStatus(r, c) ==
  \E caller \in c.callers, oid \in OrderIds, status \in c.statuses, note \in c.notes :
    /\ CanStart(r, c)
    /\ LET q == [IdleReq EXCEPT !.op = "status", !.caller = caller,
                                !.oid = oid, !.arg = status, !.note = note]
       IN IF ~IsAdministrator(caller)
            THEN Begin(r, Respond(q, 403, "Access denied"), c.keep)
            ELSE Begin(r, [q EXCEPT !.pc = "find"], c.keep)
    /\ UNCHANGED <<products, orders, dbConnected, users, otp, settings>>

\* The notes requests may carry: none, or a note long enough for the
\* validators.
NoteInputs == {"none", "late parcel"}

\* An updateStatus that sets the orderStatus and nothing else.
updateStatusBare(order, newStatus, adminId, note) == [order EXCEPT !.orderStatus = newStatus]

\* An updateStatus that keeps no note.
updateStatusSilent(order, newStatus, adminId, note) ==
  LET a == [order EXCEPT !.orderStatus = newStatus]
  IN IF newStatus = "shipped" THEN [a EXCEPT !.shipStatus = "shipped"]
     ELSE IF newStatus = "delivered"
       THEN [a EXCEPT !.shipStatus = "delivered", !.delivered = TRUE]
     ELSE a

\* orderSchema.methods.updateStatus, up to its call of save().
updateStatus(order, newStatus, adminId, note) ==
  LET n == IF adminId /= "none" /\ note /= "none"
             THEN [order EXCEPT !.notes =
                     Append(@, [from |-> order.orderStatus, to |-> newStatus,
                                note |-> note, adminId |-> adminId])]
             ELSE order
      a == [n EXCEPT !.orderStatus = newStatus]
      b == IF newStatus = "shipped" THEN [a EXCEPT !.shipStatus = "shipped"]
           ELSE IF newStatus = "delivered"
             THEN [a EXCEPT !.shipStatus = "delivered", !.delivered = TRUE]
           ELSE a
  IN b

StatusFind(r) ==
  /\ req[r].op = "status" /\ req[r].pc = "find"
  /\ LET q == req[r]
     IN IF ~dbConnected THEN Step(r, Respond(q, 500, "Server Error"))
        ELSE IF q.oid > Len(orders) THEN Step(r, Respond(q, 404, "Order not found"))
        ELSE Step(r, [q EXCEPT !.pc = "save",
                 !.mods = Changes(orders[q.oid],
                                  updateStatus(orders[q.oid], q.arg, q.caller, q.note),
                                  {"orderStatus", "shipStatus", "delivered"})])
  /\ UNCHANGED <<products, orders, dbConnected, nOps, users, otp, settings>>

StatusSave(r) ==
  /\ req[r].op = "status" /\ req[r].pc = "save"
  /\ LET q == req[r]
     IN IF ~dbConnected
          THEN /\ Step(r, Respond(q, 500, "Server Error"))
               /\ UNCHANGED orders
          ELSE /\ orders' = [orders EXCEPT ![q.oid] = Save(@, q.mods)]
               /\ Step(r, Respond(q, 200, "none"))
  /\ UNCHANGED <<products, dbConnected, nOps, users, otp, settings>>

\* ---------------------------------------- PATCH /api/admin/orders/:id/status
StartAdminStatus(r, c) ==
  \E caller \in c.callers, oid \in OrderIds, status \in c.statuses, note \in c.notes :
    /\ CanStart(r, c)
    /\ LET q == [IdleReq EXCEPT !.op = "adminStatus", !.caller = caller,
                                !.oid = oid, !.arg = status, !.note = note]
       IN IF ~IsAdministrator(caller)
            THEN Begin(r, Respond(q, 403, "Access denied"), c.keep)
            ELSE Begin(r, [q EXCEPT !.pc = "find"], c.keep)
    /\ UNCHANGED <<products, orders, dbConnected, users, otp, settings>>

AdminStatusFind(r) ==
  /\ req[r].op = "adminStatus" /\ req[r].pc = "find"
  /\ LET q == req[r]
     IN IF ~dbConnected THEN Step(r, Respond(q, 500, "Server Error"))
        ELSE IF q.oid > Len(orders) THEN Step(r, Respond(q, 404, "Order not found"))
        ELSE Step(r, [q EXCEPT !.pc = "save",
                 !.mods = Changes(orders[q.oid],
                                  updateStatus(orders[q.oid], q.arg, q.caller, q.note),
                                  {"orderStatus", "shipStatus", "delivered"})])
  /\ UNCHANGED <<products, orders, dbConnected, nOps, users, otp, settings>>

\* A status update that gives the stock of a cancelled or returned order back.
AdminStatusSaveRestocking(r) ==
  /\ req[r].op = "adminStatus" /\ req[r].pc = "save"
  /\ LET q == req[r]
         item == orders[q.oid].items[1]
     IN IF ~dbConnected
          THEN /\ Step(r, Respond(q, 500, "Server Error"))
               /\ UNCHANGED <<orders, products>>
          ELSE /\ orders' = [orders EXCEPT ![q.oid] = Save(@, q.mods)]
               /\ products' = IF q.arg \in {"cancelled", "returned"}
                                   /\ item.productId \in DOMAIN products
                                THEN [products EXCEPT ![item.productId].stock = @ + item.quantity]
                                ELSE products
               /\ Step(r, RespondWith(q, 200, Fetched(orders'[q.oid])))
  /\ UNCHANGED <<dbConnected, nOps, users, otp, settings>>

\* this.save() of updateStatus and the response, which carries the order.
AdminStatusSave(r) ==
  /\ req[r].op = "adminStatus" /\ req[r].pc = "save"
  /\ LET q == req[r]
     IN IF ~dbConnected
          THEN /\ Step(r, Respond(q, 500, "Server Error"))
               /\ UNCHANGED orders
          ELSE /\ orders' = [orders EXCEPT ![q.oid] = Save(@, q.mods)]
               /\ Step(r, RespondWith(q, 200, Fetched(orders'[q.oid])))
  /\ UNCHANGED <<products, dbConnected, nOps, users, otp, settings>>

\* ------------------------------------- PATCH /api/orders/:id/payment-status
StartPayStatus(r, c) ==
  \E caller \in c.callers, oid \in OrderIds, status \in c.payStatuses, note \in c.notes :
    /\ CanStart(r, c)
    /\ LET q == [IdleReq EXCEPT !.op = "payStatus", !.caller = caller,
                                !.oid = oid, !.arg = status, !.note = note]
       IN IF ~IsAdministrator(caller)
            THEN Begin(r, Respond(q, 403, "Access denied"), c.keep)
          ELSE IF ~dbConnected
            THEN Begin(r, [Respond(q, 200, "none") EXCEPT !.mock = TRUE], c.keep)
          ELSE Begin(r, [q EXCEPT !.pc = "find"], c.keep)
    /\ UNCHANGED <<products, orders, dbConnected, users, otp, settings>>

PayStatusFind(r) ==
  /\ req[r].op = "payStatus" /\ req[r].pc = "find"
  /\ LET q == req[r]
     IN IF ~dbConnected THEN Step(r, Respond(q, 500, "Server Error"))
        ELSE IF q.oid > Len(orders) THEN Step(r, Respond(q, 404, "Order not found"))
        ELSE Step(r, [q EXCEPT !.pc = "save",
                 !.mods = Changes(orders[q.oid],
                                  [orders[q.oid] EXCEPT
                                     !.paymentStatus = q.arg,
                                     !.payStatus = q.arg,
                                     !.notes = IF q.note /= "none"
                                                 THEN Append(@, [from |-> "none", to |-> "none",
                                                                 note |-> q.note,
                                                                 adminId |-> q.caller])
                                                 ELSE @],
                                  {"paymentStatus", "payStatus"})])
  /\ UNCHANGED <<products, orders, dbConnected, nOps, users, otp, settings>>

PayStatusSave(r) ==
  /\ req[r].op = "payStatus" /\ req[r].pc = "save"
  /\ LET q == req[r]
     IN IF ~dbConnected
          THEN /\ Step(r, Respond(q, 500, "Server Error"))
               /\ UNCHANGED orders
          ELSE /\ orders' = [orders EXCEPT ![q.oid] = Save(@, q.mods)]
               /\ Step(r, Respond(q, 200, "none"))
  /\ UNCHANGED <<products, dbConnected, nOps, users, otp, settings>>

\* --------------------------------------------- PATCH /api/products/:id/stock
ProductRefs == Products \cup {"ghost"}

\* body('quantity').isInt() accepts every integer.
Quantities == (0 - MaxQty)..MaxQty

Operations == {"increase", "decrease"}

StartStock(r, c) ==
  \E caller \in c.callers, pid \in c.refs, quantity \in Quantities, operation \in Operations :
    /\ CanStart(r, c)
    /\ LET q == [IdleReq EXCEPT !.op = "stock", !.caller = caller, !.pid = pid,
                                !.qty = quantity, !.arg = operation]
       IN IF ~IsAdministrator(caller)
            THEN Begin(r, Respond(q, 403, "Access denied"), c.keep)
            ELSE Begin(r, [q EXCEPT !.pc = "find"], c.keep)
    /\ UNCHANGED <<products, orders, dbConnected, users, otp, settings>>

\* An updateStock that adjusts the stock and leaves the status as it is.
updateStockOnly(product, quantity, operation) ==
  IF operation = "decrease" /\ product.stock < quantity
    THEN [err |-> "Insufficient stock", doc |-> product]
    ELSE [err |-> "ok",
          doc |-> IF operation = "decrease" THEN [product EXCEPT !.stock = @ - quantity]
                  ELSE IF operation = "increase" THEN [product EXCEPT !.stock = @ + quantity]
                  ELSE product]

\* productSchema.methods.updateStock, up to its call of save(): the error it
\* throws, or "ok", and the document as it then is.
updateStock(product, quantity, operation) ==
  IF operation = "decrease" /\ product.stock < quantity
    THEN [err |-> "Insufficient stock", doc |-> product]
    ELSE LET a == IF operation = "decrease" THEN [product EXCEPT !.stock = @ - quantity]
                  ELSE IF operation = "increase" THEN [product EXCEPT !.stock = @ + quantity]
                  ELSE product
             b == IF a.stock = 0 THEN [a EXCEPT !.status = "out_of_stock"]
                  ELSE IF a.status = "out_of_stock" THEN [a EXCEPT !.status = "active"]
                  ELSE a
         IN [err |-> "ok", doc |-> b]

StockFind(r) ==
  /\ req[r].op = "stock" /\ req[r].pc = "find"
  /\ LET q == req[r]
     IN IF ~dbConnected THEN Step(r, Respond(q, 500, "Server Error"))
        ELSE IF q.pid \notin DOMAIN products THEN Step(r, Respond(q, 404, "Product not found"))
        ELSE LET u == updateStock(products[q.pid], q.qty, q.arg)
             IN /\ u.doc.stock <= MaxStock
                /\ IF u.err /= "ok" THEN Step(r, Respond(q, 400, u.err))
                   ELSE Step(r, [q EXCEPT !.pc = "save",
                            !.mods = Modified(products[q.pid], u.doc, {"stock", "status"})])
  /\ UNCHANGED <<products, orders, dbConnected, nOps, users, otp, settings>>

\* The schema validators document.save() runs on the modified paths:
\* stock: {min: 0}.
ProductValid(mods) == "stock" \in DOMAIN mods => mods.stock >= 0

StockSave(r) ==
  /\ req[r].op = "stock" /\ req[r].pc = "save"
  /\ LET q == req[r]
     IN IF ~ProductValid(q.mods) \/ ~dbConnected
          THEN /\ Step(r, Respond(q, 500, "Server Error"))
               /\ UNCHANGED products
          ELSE /\ products' = [products EXCEPT ![q.pid] = Save(@, q.mods)]
               /\ Step(r, Respond(q, 200, "none"))
  /\ UNCHANGED <<orders, dbConnected, nOps, users, otp, settings>>

\* --------------------------------------------------- PUT /api/products/:id
\* Bodies an administrator may send: the stock (isInt, min 0), the status (one
\* of the schema's enum), the price or the name.
ProductBodies ==
  {[stock |-> n] : n \in 0..MaxStock}
  \cup {[status |-> s] : s \in ProductStatuses}
  \cup {[price |-> c] : c \in 1..2}
  \cup {[name |-> "n2"]}

StartUpdateProduct(r, c) ==
  \E caller \in c.callers, pid \in c.refs, body \in c.bodies :
    /\ CanStart(r, c)
    /\ LET q == [IdleReq EXCEPT !.op = "update", !.caller = caller, !.pid = pid,
                                !.mods = body]
       IN IF ~IsAdministrator(caller)
            THEN Begin(r, Respond(q, 403, "Access denied"), c.keep)
            ELSE Begin(r, [q EXCEPT !.pc = "update"], c.keep)
    /\ UNCHANGED <<products, orders, dbConnected, users, otp, settings>>

\* Product.findByIdAndUpdate(req.params.id, req.body, {runValidators: true})
UpdateProduct(r) ==
  /\ req[r].op = "update" /\ req[r].pc = "update"
  /\ LET q == req[r]
     IN IF ~dbConnected
          THEN Step(r, Respond(q, 500, "Server Error")) /\ UNCHANGED products
        ELSE IF q.pid \notin DOMAIN products
          THEN Step(r, Respond(q, 404, "Product not found")) /\ UNCHANGED products
        ELSE /\ products' = [products EXCEPT ![q.pid] = Save(@, q.mods)]
             /\ Step(r, Respond(q, 200, "none"))
  /\ UNCHANGED <<orders, dbConnected, nOps, users, otp, settings>>

\* ------------------------------------------------ DELETE /api/products/:id
StartDeleteProduct(r, c) ==
  \E caller \in c.callers, pid \in c.refs :
    /\ CanStart(r, c)
    /\ LET q == [IdleReq EXCEPT !.op = "delete", !.caller = caller, !.pid = pid]
       IN IF ~IsAdministrator(caller)
            THEN Begin(r, Respond(q, 403, "Access denied"), c.keep)
            ELSE Begin(r, [q EXCEPT !.pc = "delete"], c.keep)
    /\ UNCHANGED <<products, orders, dbConnected, users, otp, settings>>

\* Product.findByIdAndDelete(req.params.id)
DeleteProduct(r) ==
  /\ req[r].op = "delete" /\ req[r].pc = "delete"
  /\ LET q == req[r]
     IN IF ~dbConnected
          THEN Step(r, Respond(q, 500, "Server Error")) /\ UNCHANGED products
        ELSE IF q.pid \notin DOMAIN products
          THEN Step(r, Respond(q, 404, "Product not found")) /\ UNCHANGED products
        ELSE /\ products' = [p \in DOMAIN products \ {q.pid} |-> products[p]]
             /\ Step(r, Respond(q, 200, "none"))
  /\ UNCHANGED <<orders, dbConnected, nOps, users, otp, settings>>

\* ------------------------------------------------ POST /api/auth/register
\* Math.floor(100000 + Math.random() * 900000).toString(); random is the
\* floor of Math.random() * 900000.
generateOTP(random) == DecimalText(100000 + random)

\* What becomes of a dispatch of the code: sendOTP resolves with success,
\* resolves without it, or the dispatch throws.
Outcomes == {"sent", "failed", "threw"}

\* The request has passed its validators.  admin is req.body.isAdmin === true.
StartRegister(r, c) ==
  \E email \in c.emails, admin \in BOOLEAN :
    /\ CanStart(r, c)
    /\ Begin(r, [IdleReq EXCEPT !.op = "register", !.pc = "find", !.email = email,
                                !.arg = IF admin THEN "admin" ELSE "user"], c.keep)
    /\ UNCHANGED <<products, orders, dbConnected, users, otp, settings>>

\* User.findOne({ email }); req.body.isAdmin === true settles isAdminUser
\* without the count of the users.
RegisterFind(r) ==
  /\ req[r].op = "register" /\ req[r].pc = "find"
  /\ LET q == req[r]
     IN IF ~dbConnected THEN Step(r, Respond(q, 500, "Server Error"))
        ELSE IF q.email \in DOMAIN users THEN Step(r, Respond(q, 400, "User already exists"))
        ELSE Step(r, [q EXCEPT !.pc = IF q.arg = "admin" THEN "save" ELSE "count"])
  /\ UNCHANGED <<products, orders, dbConnected, nOps, users, otp, settings>>

\* await User.countDocuments() === 0: the first user is an administrator.
RegisterCount(r) ==
  /\ req[r].op = "register" /\ req[r].pc = "count"
  /\ LET q == req[r]
     IN IF ~dbConnected THEN Step(r, Respond(q, 500, "Server Error"))
        ELSE Step(r, [q EXCEPT !.pc = "save",
                               !.arg = IF DOMAIN users = {} THEN "admin" ELSE "user"])
  /\ UNCHANGED <<products, orders, dbConnected, nOps, users, otp, settings>>

\* The user document of new User({...}) with its verification code.
NewUser(q, code) ==
  [role |-> q.arg, isAdmin |-> q.arg = "admin", isEmailVerified |-> FALSE,
   emailVerificationCode |-> code, emailVerificationExpires |-> "set"]

\* The user of a 201 response.
UserSummary(q, user) == [NoOut EXCEPT !.docs = {[email |-> q.email, role |-> user.role]}]

\* A handler that saves the user and awaits the dispatch of the code before
\* it responds.
RegisterSaveAwaiting(r, c) ==
  \E random \in c.draws :
    /\ req[r].op = "register" /\ req[r].pc = "save"
    /\ LET q == req[r]
           user == NewUser(q, generateOTP(random))
       IN IF ~dbConnected \/ q.email \in DOMAIN users
            THEN /\ Step(r, Respond(q, 500, "Server Error"))
                 /\ UNCHANGED <<users, otp>>
            ELSE /\ users' = [e \in DOMAIN users \cup {q.email} |->
                                IF e = q.email THEN user ELSE users[e]]
                 /\ otp' = [otp EXCEPT ![q.email] = "pending"]
                 /\ Step(r, [q EXCEPT !.pc = "sending"])
    /\ UNCHANGED <<products, orders, dbConnected, nOps, settings>>

\* generateOTP(), await user.save(), sendEmailAsync() not awaited, and the
\* 201 response.
RegisterSave(r, c) ==
  \E random \in c.draws :
    /\ req[r].op = "register" /\ req[r].pc = "save"
    /\ LET q == req[r]
           user == NewUser(q, generateOTP(random))
       IN IF ~dbConnected \/ q.email \in DOMAIN users
            THEN /\ Step(r, Respond(q, 500, "Server Error"))
                 /\ UNCHANGED <<users, otp>>
            ELSE /\ users' = [e \in DOMAIN users \cup {q.email} |->
                                IF e = q.email THEN user ELSE users[e]]
                 /\ otp' = [otp EXCEPT ![q.email] = "pending"]
                 /\ Step(r, RespondWith(q, 201, UserSummary(q, user)))
    /\ UNCHANGED <<products, orders, dbConnected, nOps, settings>>

\* sendEmailAsync runs to its end: its try/catch takes whatever the dispatch
\* comes to.
Dispatch ==
  \E e \in Emails, outcome \in Outcomes :
    /\ otp[e] = "pending"
    /\ otp' = [otp EXCEPT ![e] = outcome]
    /\ UNCHANGED <<products, orders, req, dbConnected, nOps, users, settings>>

\* -------------------------------------------- POST /api/auth/verify-email
\* The codes a client may send: any code generateOTP can give.
Codes(c) == {generateOTP(n) : n \in c.draws}

StartVerify(r, c) ==
  \E email \in c.emails, code \in Codes(c) :
    /\ CanStart(r, c)
    /\ Begin(r, [IdleReq EXCEPT !.op = "verify", !.pc = "find", !.email = email,
                                !.code = code], c.keep)
    /\ UNCHANGED <<products, orders, dbConnected, users, otp, settings>>

\* User.findOne({ email }) and the checks on the user found; late tells
\* whether new Date() is after the stored expiry.
VerifyFind(r) ==
  \E late \in BOOLEAN :
    /\ req[r].op = "verify" /\ req[r].pc = "find"
    /\ LET q == req[r]
       IN IF ~dbConnected THEN Step(r, Respond(q, 500, "Server Error"))
          ELSE IF q.email \notin DOMAIN users THEN Step(r, Respond(q, 404, "User not found"))
          ELSE LET user == users[q.email]
               IN IF user.isEmailVerified THEN Step(r, Respond(q, 400, "Already verified"))
                  ELSE IF user.emailVerificationCode = <<>>
                          \/ user.emailVerificationExpires = "none"
                    THEN Step(r, Respond(q, 400, "No verification code"))
                  ELSE IF late THEN Step(r, Respond(q, 400, "Code expired"))
                  ELSE IF user.emailVerificationCode /= q.code
                    THEN Step(r, Respond(q, 400, "Invalid code"))
                  ELSE Step(r, [q EXCEPT !.pc = "save",
                                  !.mods = [isEmailVerified |-> TRUE,
                                            emailVerificationCode |-> <<>>,
                                            emailVerificationExpires |-> "none"]])
    /\ UNCHANGED <<products, orders, dbConnected, nOps, users, otp, settings>>

VerifySave(r) ==
  /\ req[r].op = "verify" /\ req[r].pc = "save"
  /\ LET q == req[r]
     IN IF ~dbConnected
          THEN /\ Step(r, Respond(q, 500, "Server Error"))
               /\ UNCHANGED users
          ELSE /\ users' = [users EXCEPT ![q.email] = Save(@, q.mods)]
               /\ Step(r, Respond(q, 200, "none"))
  /\ UNCHANGED <<products, orders, dbConnected, nOps, otp, settings>>

\* -------------------------------------- POST /api/auth/resend-verification
StartResend(r, c) ==
  \E email \in c.emails :
    /\ CanStart(r, c)
    /\ Begin(r, [IdleReq EXCEPT !.op = "resend", !.pc = "find", !.email = email], c.keep)
    /\ UNCHANGED <<products, orders, dbConnected, users, otp, settings>>

ResendFind(r) ==
  /\ req[r].op = "resend" /\ req[r].pc = "find"
  /\ LET q == req[r]
     IN IF ~dbConnected THEN Step(r, Respond(q, 500, "Server Error"))
        ELSE IF q.email \notin DOMAIN users THEN Step(r, Respond(q, 404, "User not found"))
        ELSE IF users[q.email].isEmailVerified
          THEN Step(r, Respond(q, 400, "Already verified"))
        ELSE Step(r, [q EXCEPT !.pc = "save"])
  /\ UNCHANGED <<products, orders, dbConnected, nOps, users, otp, settings>>

\* The new code and expiry, user.save(), sendEmailAsync() not awaited, and
\* the response.
ResendSave(r, c) ==
  \E random \in c.draws :
    /\ req[r].op = "resend" /\ req[r].pc = "save"
    /\ LET q == [req[r] EXCEPT !.code = generateOTP(random)]
       IN IF ~dbConnected
            THEN /\ Step(r, Respond(q, 500, "Server Error"))
                 /\ UNCHANGED <<users, otp>>
            ELSE /\ users' = [users EXCEPT ![q.email] =
                                Save(@, [emailVerificationCode |-> q.code,
                                         emailVerificationExpires |-> "set"])]
                 /\ otp' = [otp EXCEPT ![q.email] = "pending"]
                 /\ Step(r, Respond(q, 200, "none"))
    /\ UNCHANGED <<products, orders, dbConnected, nOps, settings>>

\* ------------------------------------------- GET, PUT /api/admin/settings
\* SettingsSchema.index({}, { unique: true }): the key pattern of the index
\* names no field.
SettingsIndexKeys == {}

\* The datastore builds an index whose key pattern names a field, and
\* refuses one whose key pattern names none.
IndexBuilt(keys) == keys /= {}

\* The unique index, where it is built, admits a document whose key no
\* stored document has.
SettingsIndexAdmits(docs, doc) ==
  IndexBuilt(SettingsIndexKeys) =>
    \A i \in 1..Len(docs) : \E k \in SettingsIndexKeys : docs[i][k] /= doc[k]

\* The shipping charges a PUT may carry.
Charges == {1, 2}

StartGetSettings(r, c) ==
  \E caller \in c.callers :
    /\ CanStart(r, c)
    /\ LET q == [IdleReq EXCEPT !.op = "getSettings", !.caller = caller]
       IN IF ~IsAdministrator(caller)
            THEN Begin(r, Respond(q, 403, "Access denied"), c.keep)
            ELSE Begin(r, [q EXCEPT !.pc = "find"], c.keep)
    /\ UNCHANGED <<products, orders, dbConnected, users, otp, settings>>

\* Settings.findOne(): the document found is answered, and default settings
\* are made when there is none.
GetSettingsFind(r) ==
  /\ req[r].op = "getSettings" /\ req[r].pc = "find"
  /\ LET q == req[r]
     IN IF ~dbConnected THEN Step(r, Respond(q, 500, "Server Error"))
        ELSE IF settings /= <<>> THEN Step(r, Respond(q, 200, "none"))
        ELSE Step(r, [q EXCEPT !.pc = "create", !.qty = 0])
  /\ UNCHANGED <<products, orders, dbConnected, nOps, users, otp, settings>>

StartPutSettings(r, c) ==
  \E caller \in c.callers, charge \in c.charges :
    /\ CanStart(r, c)
    /\ LET q == [IdleReq EXCEPT !.op = "putSettings", !.caller = caller, !.qty = charge]
       IN IF ~IsAdministrator(caller)
            THEN Begin(r, Respond(q, 403, "Access denied"), c.keep)
            ELSE Begin(r, [q EXCEPT !.pc = "find"], c.keep)
    /\ UNCHANGED <<products, orders, dbConnected, users, otp, settings>>

\* Settings.findOne(): the document found is updated, and settings are made
\* from the body when there is none.
PutSettingsFind(r) ==
  /\ req[r].op = "putSettings" /\ req[r].pc = "find"
  /\ LET q == req[r]
     IN IF ~dbConnected THEN Step(r, Respond(q, 500, "Server Error"))
        ELSE IF settings /= <<>> THEN Step(r, [q EXCEPT !.pc = "update", !.oid = 1])
        ELSE Step(r, [q EXCEPT !.pc = "create"])
  /\ UNCHANGED <<products, orders, dbConnected, nOps, users, otp, settings>>

\* settings.save() of a new document, in either route.
SettingsCreate(r) ==
  /\ req[r].op \in {"getSettings", "putSettings"} /\ req[r].pc = "create"
  /\ LET q == req[r]
         doc == [shippingCharge |-> q.qty, lastUpdatedBy |-> q.caller]
     IN IF ~dbConnected \/ ~SettingsIndexAdmits(settings, doc)
          THEN /\ Step(r, Respond(q, 500, "Server Error"))
               /\ UNCHANGED settings
          ELSE /\ settings' = Append(settings, doc)
               /\ Step(r, Respond(q, 200, "none"))
  /\ UNCHANGED <<products, orders, dbConnected, nOps, users, otp>>

\* settings.save() of the document found.
PutSettingsSave(r) ==
  /\ req[r].op = "putSettings" /\ req[r].pc = "update"
  /\ LET q == req[r]
     IN IF ~dbConnected
          THEN /\ Step(r, Respond(q, 500, "Server Error"))
               /\ UNCHANGED settings
          ELSE /\ settings' = [settings EXCEPT ![q.oid] =
                                 [shippingCharge |-> q.qty, lastUpdatedBy |-> q.caller]]
               /\ Step(r, Respond(q, 200, "none"))
  /\ UNCHANGED <<products, orders, dbConnected, nOps, users, otp>>

\* ---------------------------------------------------------- the datastore
DbDown ==
  /\ dbConnected
  /\ dbConnected' = FALSE
  /\ UNCHANGED <<products, orders, req, nOps, users, otp, settings>>

DbUp ==
  /\ ~dbConnected
  /\ dbConnected' = TRUE
  /\ UNCHANGED <<products, orders, req, nOps, users, otp, settings>>

\* ------------------------------------------------------- specifications
\* What a specification lets clients send: who places orders and who calls,
\* the items, shipping costs, statuses, product references and product bodies
\* they send, how long an item list is, the days and random draws of the order
\* numbers, the payment statuses sent with an order, how many requests and
\* orders there are, and whether a request keeps the collections as they are
\* on its entry.
LeanItems ==
  {[productId |-> "p1", id |-> "none", quantity |-> n, price |-> 0] : n \in 1..MaxQty}
  \cup {[productId |-> "none", id |-> "none", quantity |-> 1, price |-> 1]}

\* Requests in flight together: orders placed and cancelled, stock adjusted
\* and products updated.
Concurrent ==
  [customers |-> {"u1"}, callers |-> Users, items |-> LeanItems, ships |-> {Absent},
   statuses |-> {}, payStatuses |-> {},
   refs |-> {"p1"}, bodies |-> ProductBodies, len |-> MaxItems,
   dates |-> {Today}, draws |-> {0}, pays |-> {"none"}, methods |-> {"cod"},
   ops |-> MaxOps, orders |-> MaxOrders, keep |-> FALSE]

Next ==
  \/ \E r \in Slots : StartCreate(r, Concurrent)
  \/ \E r \in Slots : CreateEntry(r, Concurrent)
  \/ \E r \in Slots : CreateValidate(r, Concurrent)
  \/ \E r \in Slots : CreateSave(r, Concurrent)
  \/ \E r \in Slots : CreateDecrement(r)
  \/ \E r \in Slots : StartCancel(r, Concurrent)
  \/ \E r \in Slots : CancelFind(r)
  \/ \E r \in Slots : CancelSave(r)
  \/ \E r \in Slots : CancelRestore(r)
  \/ \E r \in Slots : StartStock(r, Concurrent)
  \/ \E r \in Slots : StockFind(r)
  \/ \E r \in Slots : StockSave(r)
  \/ \E r \in Slots : StartUpdateProduct(r, Concurrent)
  \/ \E r \in Slots : UpdateProduct(r)

Spec == Init /\ [][Next]_vars

\* One request at a time over any catalog POST /api/products can have built,
\* with the full range of request bodies.
Catalogs ==
  {[p \in Products |-> IF p = "p1" THEN [InitProducts[p] EXCEPT !.stock = n, !.status = s]
                                    ELSE InitProducts[p]] :
     n \in 0..MaxStock, s \in ProductStatuses}

InitSeq ==
  /\ products \in Catalogs
  /\ orders = <<>>
  /\ req = [r \in Slots |-> IdleReq]
  /\ dbConnected = TRUE
  /\ nOps = 0
  /\ users = NoUsers
  /\ otp = [e \in Emails |-> "none"]
  /\ settings = <<>>

\* Orders placed and cancelled.
Placing ==
  [customers |-> {"u1"}, callers |-> Users, items |-> ItemInputs, ships |-> ShipInputs,
   statuses |-> {}, payStatuses |-> {}, refs |-> {}, bodies |-> {}, len |-> MaxItems,
   dates |-> {Today}, draws |-> {0}, pays |-> {"none", "bogus"}, methods |-> {"cod"},
   ops |-> MaxPlaceOps, orders |-> MaxPlaced, keep |-> TRUE]

NextPlace ==
  \/ StartCreate(1, Placing)
  \/ CreateEntry(1, Placing)
  \/ CreateValidate(1, Placing)
  \/ CreateSave(1, Placing)
  \/ CreateDecrement(1)
  \/ StartCancel(1, Placing)
  \/ CancelFind(1)
  \/ CancelSave(1)
  \/ CancelRestore(1)
  \/ DbDown
  \/ DbUp

SpecPlace == InitSeq /\ [][NextPlace]_vars

\* Orders through their statuses: placed (one line item each), updated by
\* administrators, cancelled.
Living ==
  [customers |-> {"u1"}, callers |-> Users, items |-> LeanItems, ships |-> {Absent},
   statuses |-> OrderStatuses, payStatuses |-> PaymentStatuses, notes |-> NoteInputs,
   refs |-> {}, bodies |-> {},
   len |-> 1, dates |-> {Today}, draws |-> 0..MaxDraw, pays |-> PayInputs, methods |-> {"cod"},
   ops |-> MaxOps, orders |-> MaxOrders, keep |-> TRUE]

NextLife ==
  \/ StartCreate(1, Living)
  \/ CreateEntry(1, Living)
  \/ CreateValidate(1, Living)
  \/ CreateSave(1, Living)
  \/ CreateDecrement(1)
  \/ StartCancel(1, Living)
  \/ CancelFind(1)
  \/ CancelSave(1)
  \/ CancelRestore(1)
  \/ StartStatus(1, Living)
  \/ StatusFind(1)
  \/ StatusSave(1)
  \/ StartPayStatus(1, Living)
  \/ PayStatusFind(1)
  \/ PayStatusSave(1)
  \/ StartAdminStatus(1, Living)
  \/ AdminStatusFind(1)
  \/ AdminStatusSave(1)

SpecLife == Init /\ [][NextLife]_vars

\* Orders of two customers placed, fetched and listed, while administrators
\* update and delete the product they reference and move the orders on.
Viewing ==
  [customers |-> {"u1", "u2"}, callers |-> Users, items |-> LeanItems, ships |-> {Absent},
   statuses |-> {"pending", "shipped", "cancelled"}, payStatuses |-> {"completed"},
   notes |-> {"none"},
   refs |-> {"p1"}, bodies |-> {[price |-> 2], [name |-> "n2"], [stock |-> 0]},
   len |-> 1, dates |-> {Today}, draws |-> 0..MaxDraw, pays |-> {"none"}, methods |-> {"cod"},
   numbers |-> {generateOrderNumber(Today, n) : n \in 0..MaxDraw},
   ops |-> MaxOps, orders |-> MaxOrders, keep |-> TRUE]

NextView ==
  \/ StartCreate(1, Viewing)
  \/ CreateEntry(1, Viewing)
  \/ CreateValidate(1, Viewing)
  \/ CreateSave(1, Viewing)
  \/ CreateDecrement(1)
  \/ StartGet(1, Viewing)
  \/ GetFind(1)
  \/ StartGetByNumber(1, Viewing)
  \/ GetByNumberFind(1)
  \/ StartList(1, Viewing)
  \/ ListFind(1)
  \/ StartCancel(1, Viewing)
  \/ CancelFind(1)
  \/ CancelSave(1)
  \/ CancelRestore(1)
  \/ StartStatus(1, Viewing)
  \/ StatusFind(1)
  \/ StatusSave(1)
  \/ StartPayStatus(1, Viewing)
  \/ PayStatusFind(1)
  \/ PayStatusSave(1)
  \/ StartUpdateProduct(1, Viewing)
  \/ UpdateProduct(1)
  \/ StartDeleteProduct(1, Viewing)
  \/ DeleteProduct(1)

SpecView == Init /\ [][NextView]_vars

\* Orders placed one after another, on any day and with any random draw.
Numbering ==
  [customers |-> {"u1"}, callers |-> {}, items |-> LeanItems, ships |-> {Absent},
   statuses |-> {}, payStatuses |-> {}, refs |-> {}, bodies |-> {},
   len |-> 1, dates |-> Dates, draws |-> Randoms, pays |-> {"none"}, methods |-> {"cod"},
   ops |-> MaxOps, orders |-> MaxOrders, keep |-> TRUE]

NextNumber ==
  \/ StartCreate(1, Numbering)
  \/ CreateEntry(1, Numbering)
  \/ CreateValidate(1, Numbering)
  \/ CreateSave(1, Numbering)
  \/ CreateDecrement(1)

SpecNumber == Init /\ [][NextNumber]_vars

\* Two customers placing orders for the same product at the same time.
Racing ==
  [customers |-> {"u1", "u2"}, callers |-> {},
   items |-> {[productId |-> "p1", id |-> "none", quantity |-> n, price |-> 0] :
                n \in 1..MaxQty},
   ships |-> {Absent}, statuses |-> {}, payStatuses |-> {}, refs |-> {}, bodies |-> {},
   len |-> 1, dates |-> {Today}, draws |-> 0..MaxDraw, pays |-> {"none"}, methods |-> {"cod"},
   ops |-> MaxOps, orders |-> MaxOrders, keep |-> TRUE]

NextRace ==
  \/ \E r \in Slots : StartCreate(r, Racing)
  \/ \E r \in Slots : CreateEntry(r, Racing)
  \/ \E r \in Slots : CreateValidate(r, Racing)
  \/ \E r \in Slots : CreateSave(r, Racing)
  \/ \E r \in Slots : CreateDecrement(r)

SpecRace == Init /\ [][NextRace]_vars

\* Orders placed with every payment method.
Paying ==
  [customers |-> {"u1"}, callers |-> {}, items |-> LeanItems, ships |-> {Absent},
   statuses |-> {}, payStatuses |-> {}, refs |-> {}, bodies |-> {},
   len |-> 1, dates |-> {Today}, draws |-> 0..MaxDraw, pays |-> {"none"},
   methods |-> PaymentMethods,
   ops |-> MaxOps, orders |-> MaxOrders, keep |-> TRUE]

NextPay ==
  \/ StartCreate(1, Paying)
  \/ CreateEntry(1, Paying)
  \/ CreateValidate(1, Paying)
  \/ CreateSave(1, Paying)
  \/ CreateDecrement(1)

SpecPay == Init /\ [][NextPay]_vars

\* Accounts registered and verified, and codes sent again.
Verifying == [emails |-> {"a@x"}, draws |-> 0..MaxDraw, ops |-> MaxOps, keep |-> TRUE]

NextVerify ==
  \/ StartRegister(1, Verifying)
  \/ RegisterFind(1)
  \/ RegisterCount(1)
  \/ RegisterSave(1, Verifying)
  \/ Dispatch
  \/ StartVerify(1, Verifying)
  \/ VerifyFind(1)
  \/ VerifySave(1)
  \/ StartResend(1, Verifying)
  \/ ResendFind(1)
  \/ ResendSave(1, Verifying)

SpecVerify == Init /\ [][NextVerify]_vars

\* Administrators reading and writing the settings at the same time.
Configuring == [callers |-> Users, charges |-> Charges, ops |-> MaxOps, keep |-> FALSE]

NextSettings ==
  \/ \E r \in Slots : StartGetSettings(r, Configuring)
  \/ \E r \in Slots : GetSettingsFind(r)
  \/ \E r \in Slots : StartPutSettings(r, Configuring)
  \/ \E r \in Slots : PutSettingsFind(r)
  \/ \E r \in Slots : SettingsCreate(r)
  \/ \E r \in Slots : PutSettingsSave(r)

SpecSettings == Init /\ [][NextSettings]_vars

\* Accounts registered while the datastore comes and goes.
Registering == [emails |-> Emails, draws |-> 0..MaxDraw, ops |-> MaxOps, keep |-> TRUE]

NextAuth ==
  \/ StartRegister(1, Registering)
  \/ RegisterFind(1)
  \/ RegisterCount(1)
  \/ RegisterSave(1, Registering)
  \/ Dispatch
  \/ DbDown
  \/ DbUp

SpecAuth == Init /\ [][NextAuth]_vars

\* The stock of the catalog adjusted and its products updated.
Stocking ==
  [customers |-> {}, callers |-> Users, items |-> {}, ships |-> {},
   statuses |-> {}, payStatuses |-> {}, refs |-> ProductRefs, bodies |-> ProductBodies,
   len |-> MaxItems, dates |-> {}, draws |-> {}, pays |-> {}, methods |-> {"cod"}, ops |-> MaxStockOps, orders |-> MaxOrders, keep |-> TRUE]

NextStock ==
  \/ StartStock(1, Stocking)
  \/ StockFind(1)
  \/ StockSave(1)
  \/ StartUpdateProduct(1, Stocking)
  \/ UpdateProduct(1)

SpecStock == InitSeq /\ [][NextStock]_vars

\* ------------------------------------------------------------- properties
\* The request in the slot of the specifications that serve one request at a
\* time, and the collections as they were when it came in.
Cur == req[1]

Before == req[1].pre

Finished(op) == Cur.op = op /\ Cur.pc = "done"

NonAdmin(u) == ~UserInfo[u].isAdmin /\ UserInfo[u].role /= "admin"

\* sum over the line items of unit price x quantity
RECURSIVE ItemsTotal(_)
ItemsTotal(items) ==
  IF items = <<>> THEN 0
  ELSE Head(items).price * Head(items).quantity + ItemsTotal(Tail(items))

\* The line items of a validated list that the catalog branch resolved to p.
ResolvedTo(vitems, p) == {i \in 1..Len(vitems) : vitems[i].cat /\ vitems[i].productId = p}

\* The line items of a stored order that reference p.
Referencing(items, p) == {i \in 1..Len(items) : items[i].productId = p}

RECURSIVE QtySum(_, _)
QtySum(items, idxs) ==
  IF idxs = {} THEN 0
  ELSE LET i == CHOOSE j \in idxs : TRUE
       IN items[i].quantity + QtySum(items, idxs \ {i})

\* C1: an order accepted with the datastore connected is persisted with
\* tax = 0, subtotal = the sum over its line items of unit price x quantity,
\* shipping.cost = the request's shipping cost or 0 when absent,
\* totalAmount = subtotal + tax + shipping.cost, and payment.amount = totalAmount.
OrderTotalIsSum ==
  (Cur.op = "create" /\ Cur.pc \in {"decrement", "done"} /\ Cur.oid > 0) =>
    LET o == orders[Cur.oid]
    IN /\ o.tax = 0
       /\ o.subtotal = ItemsTotal(o.items)
       /\ o.shipCost = Cur.ship.v
       /\ o.totalAmount = o.subtotal + o.tax + o.shipCost
       /\ o.payAmount = o.totalAmount

\* C2: after an order is placed successfully, with no other request in flight
\* and no failure, every product has its stock before the request less the
\* quantities of the line items that resolved to it, and its order counter
\* raised by one per such line item; products the order does not reference are
\* unchanged.
PlacementTakesResolvedStock ==
  (Finished("create") /\ Cur.res = 201 /\ ~Cur.mock) =>
    \A p \in Products :
      LET mine == ResolvedTo(Cur.vitems, p)
      IN /\ products[p].stock = Before.products[p].stock - QtySum(Cur.vitems, mine)
         /\ products[p].orders = Before.products[p].orders + Cardinality(mine)
         /\ (mine = {} => products[p] = Before.products[p])

\* C3: a placement rejected by a catalog check on any of its items, whatever
\* the item's position, answers 400, persists no order and leaves every
\* product's stock and order counter as they were.
CatalogErrors ==
  {"Invalid product", "Product unavailable", "Insufficient stock", "Minimum order not met"}

OrderRejectionIsClean ==
  (Finished("create") /\ Cur.err \in CatalogErrors) =>
    /\ Cur.res = 400
    /\ orders = Before.orders
    /\ products = Before.products

\* A placement whose second item is rejected for its stock, after a catalog
\* item before it has passed.
SecondItemRejected ==
  /\ Finished("create")
  /\ Cur.err = "Insufficient stock"
  /\ Len(Cur.vitems) = 1
  /\ Cur.vitems[1].cat

\* C4: in every reachable state, under any interleaving of placements,
\* cancellations, stock adjustments and product updates, every product's
\* stock is at least 0.
StockNeverNegative == \A p \in Products : products[p].stock >= 0

\* C5: a successful cancellation raises the stock of every product that a line
\* item of the order references by that line item's quantity.
CancelRestoresStock ==
  (Finished("cancel") /\ Cur.res = 200) =>
    \A p \in Products :
      LET items == orders[Cur.oid].items
      IN products[p].stock =
           Before.products[p].stock + QtySum(items, Referencing(items, p))

\* C6: a cancellation by the owner of the order sets orderStatus to cancelled
\* when the order is pending or confirmed; from any other status, cancelled
\* included, it answers 400 and changes neither the order nor any product.
OwnerCancel ==
  /\ Cur.op = "cancel"
  /\ Cur.oid <= Len(Before.orders)
  /\ Before.orders[Cur.oid].customerId = Cur.caller

CancelOnlyFromPendingOrConfirmed ==
  OwnerCancel =>
    IF Before.orders[Cur.oid].orderStatus \in {"pending", "confirmed"}
      THEN Cur.pc = "done" => orders[Cur.oid].orderStatus = "cancelled"
      ELSE /\ orders = Before.orders
           /\ products = Before.products
           /\ Cur.pc = "done" => Cur.res = 400

\* The owner's second cancellation of an order, answered.
SecondCancelRejected ==
  /\ OwnerCancel
  /\ Cur.pc = "done"
  /\ Before.orders[Cur.oid].orderStatus = "cancelled"
  /\ Cur.res = 400

\* C7: in every reachable state a product whose stock is 0 has status
\* out_of_stock.
ZeroStockIsOutOfStock ==
  \A p \in Products : products[p].stock = 0 => products[p].status = "out_of_stock"

\* C8: a stock adjustment with operation decrease answers 400 'Insufficient
\* stock' and leaves stock and status alone when the stock is below the
\* quantity, and otherwise sets stock to stock - quantity; with operation
\* increase it always succeeds and sets stock to stock + quantity, for every
\* integer quantity.
StockAdjustmentContract ==
  (Finished("stock") /\ IsAdministrator(Cur.caller) /\ Cur.pid \in Products) =>
    LET was == Before.products[Cur.pid]
        now == products[Cur.pid]
    IN IF Cur.arg = "decrease"
         THEN IF was.stock < Cur.qty
                THEN /\ Cur.res = 400
                     /\ Cur.err = "Insufficient stock"
                     /\ now.stock = was.stock
                     /\ now.status = was.status
                ELSE now.stock = was.stock - Cur.qty
         ELSE /\ Cur.res = 200
              /\ now.stock = was.stock + Cur.qty

\* C9: every change of a persisted order's orderStatus is a transition of the
\* lifecycle pending -> confirmed -> processing -> shipped -> delivered,
\* {pending, confirmed} -> cancelled, non-terminal -> returned; a delivered,
\* cancelled or returned order never changes its orderStatus.
Terminal == {"delivered", "cancelled", "returned"}

Lifecycle ==
  {<<"pending", "confirmed">>, <<"confirmed", "processing">>,
   <<"processing", "shipped">>, <<"shipped", "delivered">>,
   <<"pending", "cancelled">>, <<"confirmed", "cancelled">>}
  \cup {<<s, "returned">> : s \in OrderStatuses \ Terminal}

StatusFollowsLifecycle ==
  [][\A i \in 1..Len(orders) :
       orders'[i].orderStatus /= orders[i].orderStatus =>
         <<orders[i].orderStatus, orders'[i].orderStatus>> \in Lifecycle]_vars

NonAdminSeesOwnOnly ==
  (Cur.pc = "done" /\ NonAdmin(Cur.caller)) =>
    /\ \A d \in Cur.out.docs : d.customerId = Cur.caller
    /\ (Cur.op = "get" /\ Cur.oid <= Len(orders)
          /\ orders[Cur.oid].customerId /= Cur.caller) => Cur.res = 403
    /\ (Cur.op = "getByNumber"
          /\ \E i \in 1..Len(orders) :
               orders[i].orderNumber = Cur.num /\ orders[i].customerId /= Cur.caller)
         => Cur.res = 403
    /\ Cur.op = "list" =>
         Cur.out.docs \subseteq {orders[i] : i \in 1..Len(orders)}

\* A customer asks by order number for an order that another customer placed,
\* and is answered 403.
OtherCustomersOrderRefused ==
  /\ Cur.op = "getByNumber" /\ Cur.pc = "done"
  /\ NonAdmin(Cur.caller)
  /\ Cur.oid >= 1 /\ Cur.oid <= Len(orders)
  /\ orders[Cur.oid].customerId /= Cur.caller
  /\ Cur.res = 403

\* 'VF', then ten decimal digits: two of the year, two of the month, two of
\* the day and a suffix of four.
NumberWellFormed(number) ==
  /\ number.prefix = "VF"
  /\ Len(number.digits) = 10
  /\ \A i \in 1..Len(number.digits) : number.digits[i] \in 0..9

\* C12: a placement that finds the datastore not connected answers 201 with a
\* mock order whose orderStatus is pending, whose orderNumber is generated
\* locally and whose totalAmount is the sum of item price x quantity plus the
\* shipping cost; no order is persisted and no product is modified.
MockOrderIsComputed ==
  (Finished("create") /\ Cur.mock) =>
    /\ Cur.res = 201
    /\ Cur.out.orderStatus = "pending"
    /\ NumberWellFormed(Cur.out.orderNumber)
    /\ Cur.out.totalAmount.v = Cur.subtotal + Cur.ship.v
    /\ orders = Before.orders
    /\ products = Before.products

\* C13: the order numbers generateOrderNumber produces within one run are
\* pairwise distinct, and each is 'VF' followed by the two-digit year, month
\* and day and a four-digit suffix.
GeneratedNumbersDistinct ==
  /\ \A i \in 1..Len(orders) : NumberWellFormed(orders[i].orderNumber)
  /\ (Cur.op = "create" /\ Cur.num /= NoNumber) =>
       /\ NumberWellFormed(Cur.num)
       /\ \A i \in 1..Len(orders) : i /= Cur.oid => orders[i].orderNumber /= Cur.num

SnapshotsOf(order) ==
  [i \in 1..Len(order.items) |->
     [name |-> order.items[i].name, price |-> order.items[i].price,
      quantity |-> order.items[i].quantity]]

InterleavedOrdersBothTaken ==
  \A r, s \in Slots :
    (/\ r /= s
     /\ \A t \in {r, s} :
          /\ req[t].op = "create" /\ req[t].pc = "done"
          /\ Len(req[t].vitems) = 1
          /\ req[t].vitems[1].productId = "p1"
          /\ req[t].vitems[1].seen = InitProducts["p1"].stock)
    => /\ req[r].res = 201 /\ req[s].res = 201
       /\ Len(orders) = 2
       /\ products["p1"].stock
            = InitProducts["p1"].stock - req[r].vitems[1].quantity - req[s].vitems[1].quantity

\* C17: a request whose order has been inserted is answered 201 even when a
\* stock decrement after the insert fails; the order stays persisted and the
\* decrements applied before the failure stay applied.
DecrementFailureNotSurfaced ==
  (Finished("create") /\ Cur.oid > 0)
    => /\ Cur.res = 201
       /\ Cur.oid <= Len(orders)
       /\ \A p \in DOMAIN products : products[p].stock <= Before.products[p].stock

\* C20: every stock decrement of POST /api/orders is for a line item that
\* passed the catalog checks of the same request; a line item taken as a
\* client-supplied ad-hoc item changes no product's stock, whatever its id,
\* name or price fields hold.
DecrementsOnlyCheckedItems ==
  [][(Cur.op = "create" /\ Cur.pc = "decrement" /\ products' /= products)
       => Cur.vitems[Cur.idx].cat]_vars

\* C19: POST /api/orders decrements stock for an order only after that order
\* has been inserted: every step of the request that changes a product is a
\* turn of the stock loop for the order the request inserted, and a request
\* that ends without an inserted order (rejected, or its insert failed on a
\* validation error or a duplicate orderNumber) leaves every product as it
\* was.
StockTakenOnlyAfterInsert ==
  [][/\ (req[1].op = "create" /\ products' /= products)
          => /\ req[1].pc = "decrement"
             /\ req[1].oid \in 1..Len(orders)
             /\ orders[req[1].oid].orderNumber = req[1].num
     /\ (req'[1].op = "create" /\ req'[1].pc = "done" /\ req'[1].oid = 0)
          => products' = req'[1].pre.products]_vars

\* An order for a catalog product whose insert failed on a validation error:
\* the stock is what it was.
InvalidOrderTakesNoStock ==
  /\ Finished("create") /\ Cur.res = 500 /\ Cur.oid = 0
  /\ Cur.arg = "bogus"
  /\ Len(Cur.vitems) = 1 /\ Cur.vitems[1].cat
  /\ products = Before.products

\* C18: POST /api/auth/register answers 201 in the step that saves the user,
\* with the dispatch of the verification code still under way, and the end of
\* a dispatch, failed or thrown, changes neither the response nor the users:
\* the account and its verification code stay as saved.
RegistrationDoesNotAwaitDispatch ==
  [][/\ users' /= users
          => /\ req'[1].op = "register" /\ req'[1].pc = "done" /\ req'[1].res = 201
             /\ req'[1].email \in DOMAIN users'
             /\ otp'[req'[1].email] = "pending"
     /\ (\E e \in Emails : otp[e] = "pending" /\ otp'[e] /= "pending")
          => req' = req /\ users' = users
     /\ \A e \in DOMAIN users : e \in DOMAIN users' /\ users'[e] = users[e]]_vars

\* A registration answered 201 whose dispatch threw: the user is stored with
\* its code.
RegisteredThoughDispatchThrew ==
  /\ Finished("register") /\ Cur.res = 201
  /\ otp[Cur.email] = "threw"
  /\ Cur.email \in DOMAIN users
  /\ Len(users[Cur.email].emailVerificationCode) = 6

\* C21: after a successful stock adjustment the status follows the stock: a
\* resulting stock of 0 gives out_of_stock, and a product that was out_of_stock
\* and now has stock above 0 is active.
StatusRecomputedOnAdjustment ==
  (Finished("stock") /\ Cur.res = 200) =>
    LET was == Before.products[Cur.pid]
        now == products[Cur.pid]
    IN /\ now.stock = 0 => now.status = "out_of_stock"
       /\ (was.status = "out_of_stock" /\ now.stock > 0) => now.status = "active"

\* An increase that took an out_of_stock product with no stock back to active.
RestockedProductIsActive ==
  /\ Finished("stock") /\ Cur.res = 200 /\ Cur.arg = "increase"
  /\ Before.products[Cur.pid].status = "out_of_stock"
  /\ Before.products[Cur.pid].stock = 0
  /\ products[Cur.pid].stock > 0
  /\ products[Cur.pid].status = "active"

\* C22: a stock adjustment leaves the status of an inactive or discontinued
\* product as it was, for every quantity and direction.
AdjustmentKeepsAdministrativeStatus ==
  (Finished("stock") /\ Cur.res = 200
     /\ Before.products[Cur.pid].status \in {"inactive", "discontinued"})
    => products[Cur.pid].status = Before.products[Cur.pid].status

\* C23: a status update to shipped sets shipping.status to shipped, one to
\* delivered sets shipping.status to delivered and stamps actualDelivery, and
\* every persisted order whose orderStatus is delivered has actualDelivery set.
DeliveredIsStamped ==
  /\ (Finished("status") /\ Cur.res = 200 /\ Cur.arg = "shipped")
       => orders[Cur.oid].shipStatus = "shipped"
  /\ (Finished("status") /\ Cur.res = 200 /\ Cur.arg = "delivered")
       => orders[Cur.oid].shipStatus = "delivered" /\ orders[Cur.oid].delivered
  /\ \A i \in 1..Len(orders) : orders[i].orderStatus = "delivered" => orders[i].delivered

\* An order an administrator has just moved to delivered.
OrderJustDelivered ==
  /\ Finished("status") /\ Cur.res = 200 /\ Cur.arg = "delivered"
  /\ orders[Cur.oid].orderStatus = "delivered"
  /\ ~Before.orders[Cur.oid].delivered

\* The requests that update a status of an order.
StatusUpdates == {"status", "adminStatus", "payStatus"}

\* C24: a status update through either route and a payment-status update
\* leave every product as it was, stock, status and order counter, also when
\* the new status is cancelled or returned.
StatusUpdatesLeaveProducts ==
  [][/\ (req[1].op \in StatusUpdates /\ req[1].pc \notin {"idle", "done"})
          => products' = products
     /\ (req'[1].op \in StatusUpdates /\ req'[1].pc = "done")
          => products' = req'[1].pre.products]_vars

\* An order for a catalog product moved to cancelled through the admin route:
\* the stock the order took is still taken.
CancelledByAdminKeepsStock ==
  /\ Finished("adminStatus") /\ Cur.res = 200 /\ Cur.arg = "cancelled"
  /\ orders[Cur.oid].orderStatus = "cancelled"
  /\ orders[Cur.oid].items[1].productId = "p1"
  /\ products["p1"].stock < InitProducts["p1"].stock
  /\ products = Before.products

\* C25: the paymentStatus of every persisted order equals its payment.status,
\* from its creation through every payment-status update.
PaymentStatusesAgree ==
  \A i \in 1..Len(orders) : orders[i].paymentStatus = orders[i].payStatus

StoredMethodIsCanonical ==
  /\ \A i \in 1..Len(orders) : orders[i].method \notin {"cod", "card"}
  /\ (Finished("create") /\ Cur.res = 201 /\ ~Cur.mock)
       => orders[Cur.oid].method
            = IF Cur.method = "cod" THEN "cash_on_delivery"
              ELSE IF Cur.method = "card" THEN "stripe"
              ELSE Cur.method

\* An order placed with the method card and stored with stripe.
CardStoredAsStripe ==
  /\ Finished("create") /\ Cur.res = 201 /\ ~Cur.mock
  /\ Cur.method = "card"
  /\ orders[Cur.oid].method = "stripe"

\* C28: the effects of a cancellation on the products (stock given back, order
\* counter taken down, per line item) are applied at most once for an order,
\* also when two cancel requests for it both read the order before either
\* saves it: no cancel request changes a product for an order that another
\* cancel request has already been answered 200 for.
CancelEffectsAppliedOnce ==
  [][\A r \in Slots :
       (/\ req[r].op = "cancel" /\ req[r].pc = "restore"
        /\ req'[r] /= req[r]
        /\ products' /= products)
       => \A s \in Slots \ {r} :
            ~(/\ req[s].op = "cancel" /\ req[s].oid = req[r].oid
              /\ req[s].pc = "done" /\ req[s].res = 200)]_vars

\* C29: at most one Settings document exists in every reachable state, also
\* when two GET or PUT requests that both found none each go on to make one.
SettingsIsSingleton == Len(settings) <= 1

\* C30: POST /api/auth/verify-email marks a user verified only when the user
\* was not verified, a code and an expiry were stored and the code sent is the
\* code stored, and it then clears the code and the expiry, so that a code
\* verifies once; and the code a resend-verification stores is not the code it
\* replaces, so that the code issued before no longer verifies.
VerificationCodesAreSingleUse ==
  [][/\ \A e \in DOMAIN users :
          (~users[e].isEmailVerified /\ users'[e].isEmailVerified)
            => /\ req[1].op = "verify" /\ req[1].email = e
               /\ users[e].emailVerificationCode /= <<>>
               /\ users[e].emailVerificationExpires /= "none"
               /\ users[e].emailVerificationCode = req[1].code
               /\ users'[e].emailVerificationCode = <<>>
               /\ users'[e].emailVerificationExpires = "none"
     /\ \A e \in DOMAIN users :
          (/\ req[1].op = "resend" /\ req[1].email = e /\ req[1].pc = "save"
           /\ req'[1].pc = "done" /\ req'[1].res = 200)
            => users'[e].emailVerificationCode /= users[e].emailVerificationCode]_vars

====
